---- MODULE Spec2Model ----
(***************************************************************************)
(* A model of pdfrw's PdfReader (src/pdfrw/pdfreader.py): the walk over    *)
(* the chain of cross-reference sections and the merge of their offset     *)
(* maps and trailers (PdfReader.__init__), the Indirect Object Table with  *)
(* its deferred set (findindirect, loadindirect, read_all,                 *)
(* load_stream_objects), the page tree walk (readpages) and the stream     *)
(* extractor (findstream, readstream).                                     *)
(*                                                                         *)
(* Each part has its own variables, initial condition and next-state       *)
(* relation; a specification of one part keeps the other parts' variables  *)
(* at their idle values.                                                   *)
(***************************************************************************)
EXTENDS Integers, Sequences, FiniteSets, TLC

VARIABLES
    \* ---- PdfReader.__init__: the xref chain walk ----
    ipc,               \* position in __init__: "xref" (in the while loop),
                       \* "streams" (before load_stream_objects), "done",
                       \* or "failed" (an exception ended it)
    floc,              \* source.floc: the section the tokenizer is positioned at
    obj_offsets,       \* source.obj_offsets
    xref_list,         \* the local xref_list
    trailer,           \* the local trailer
    original_trailer,  \* the local original_trailer
    version,           \* self.private.version
    doc,               \* the keys self.update(trailer) stores in the reader
    header,            \* the version the file header declares (fdata[5:8])
    sections,          \* what the file holds, section by section, newest first
    \* ---- readpages ----
    ppc,               \* "start" before readpages(self.Root), "done" after
    tree,              \* the page tree: each node's /Type and /Kids (or /Pages)
    pages,             \* self.private.pages
    page_errors,       \* the nodes log.error reported
    \* ---- findstream / readstream ----
    spc,               \* "start" before the stream is extracted, "done" after
    fdata,             \* source.fdata, a sequence of characters
    tokstart,          \* source.tokstart: where the stream keyword starts
    Length,            \* int(obj.Length)
    stream,            \* obj.stream (None before it is set)
    stream_log,        \* what source.warning and source.error reported
    stream_floc,       \* source.floc when readstream returns
    fast_path,         \* whether the Length-trusting fast path was accepted
    \* ---- the Indirect Object Table ----
    tpc,               \* "idle" between calls, "read_all" inside read_all's loop
    objects,           \* the file: the indirect object written at each offset
    indirect_objects,  \* self.indirect_objects
    deferred_objects,  \* self.deferred_objects
    made,              \* how many objects were created for each identity
    call,              \* the last call: its arguments, result and diagnostics
    first_loaded,      \* the object each identity's first loadindirect returned
    prev,              \* read_all's local prev
    todo,              \* read_all: the keys of new the for loop has yet to load
    attempts           \* the loadindirect calls the running read_all made, per key

initVars == <<ipc, floc, obj_offsets, xref_list, trailer, original_trailer,
              version, doc, header, sections>>

pageVars == <<ppc, tree, pages, page_errors>>

streamVars == <<spc, fdata, tokstart, Length, stream, stream_log, stream_floc,
                fast_path>>

tableVars == <<tpc, objects, indirect_objects, deferred_objects, made, call,
               first_loaded, prev, todo, attempts>>

vars == <<initVars, pageVars, streamVars, tableVars>>

\* Python's None.
None == "None"

\* The empty dict.
EmptyDict == <<>>

(***************************************************************************)
(* Dictionaries are functions with a finite domain.                        *)
(***************************************************************************)

\* dict.get(key, default)
Get(d, key, default) == IF key \in DOMAIN d THEN d[key] ELSE default

\* dict.setdefault(key, value), mutant: the later entry overwrites the earlier.
SetDefaultOverwrites(d, key, value) ==
    [k \in DOMAIN d \cup {key} |-> IF k = key THEN value ELSE d[k]]

\* dict.setdefault(key, value): the value is stored only if the key is new.
SetDefault(d, key, value) ==
    IF key \in DOMAIN d THEN d ELSE d @@ (key :> value)

\* dict.update(other): other's entries replace d's.
Update(d, other) ==
    [k \in DOMAIN d \cup DOMAIN other |->
        IF k \in DOMAIN other THEN other[k] ELSE d[k]]

\* PdfDict attribute assignment d.key = None: the key is deleted.
DelKey(d, key) == [k \in DOMAIN d \ {key} |-> d[k]]

(***************************************************************************)
(* Bounds and alphabets of the xref chain.                                 *)
(***************************************************************************)

\* The longest chain of xref sections a file holds.
MaxSections == 3

\* Object numbers and generation numbers that occur in the files.
ObjNums == {1, 2}
Gens == {0}
Keys == ObjNums \X Gens

\* Byte offsets an xref entry can record (0: no object).
XrefOffsets == {0, 1, 2}

\* The lines of a classic xref table, flattened over its subsections:
\* "offset generation inuse" for an object number.
XrefEntries ==
    [objnum : ObjNums, generation : Gens, offset : XrefOffsets, inuse : {"n"}]
    \cup [objnum : ObjNums, generation : Gens, offset : {0}, inuse : {"f"}]

\* The tables a section can hold: up to two lines.
XrefTables ==
    {<<>>} \cup {<<e>> : e \in XrefEntries}
           \cup {<<e1, e2>> : e1 \in XrefEntries, e2 \in XrefEntries}

\* Versions as tenths (float('1.4') is 14): what the header declares, and
\* what a trailer's Version can declare.
HeaderVersions == {13, 15}
TrailerVersions == {14, 16}

\* A trailer of the section at chain position i: any of Root, Info, ID,
\* each with a value of that section's own, and possibly a Version.
TrailerFields == {"Root", "Info", "ID"}

TrailersOf(i, versions) ==
    { [k \in fs \cup vs |-> IF k = "Version" THEN v ELSE <<k, i>>] :
        fs \in SUBSET TrailerFields, vs \in {{}, {"Version"}}, v \in versions }

PlainTrailersOf(i) == { [k \in {"Root"} |-> <<k, i>>] }

(***************************************************************************)
(* parse_xref_table: the strict pass over a classic table.                 *)
(***************************************************************************)

RECURSIVE parse_xref_table(_, _)
parse_xref_table(table, offsets) ==
    IF table = <<>> THEN offsets
    ELSE LET e == Head(table)
             key == <<e.objnum, e.generation>>
         IN parse_xref_table(Tail(table),
                IF e.inuse = "n" /\ e.offset # 0
                THEN SetDefault(offsets, key, e.offset)
                ELSE offsets)

\* What a table records for an identity: the offset of its first in-use line
\* with a nonzero offset (the property of the input the claims speak about).
Records(table, key) ==
    { i \in 1..Len(table) :
        /\ <<table[i].objnum, table[i].generation>> = key
        /\ table[i].inuse = "n"
        /\ table[i].offset # 0 }

RecordedOffsets(table) ==
    [key \in {k \in Keys : Records(table, k) # {}} |->
        LET first == CHOOSE i \in Records(table, key) :
                        \A j \in Records(table, key) : i <= j
        IN table[first].offset]

(***************************************************************************)
(* The merge after the loop.                                               *)
(***************************************************************************)

\* Mutant: the saved maps are applied newest first, so older ones win.
RECURSIVE MergeNewestFirst(_, _)
MergeNewestFirst(offsets, list) ==
    IF list = <<>> THEN offsets
    ELSE MergeNewestFirst(Update(offsets, Head(list)), Tail(list))

\* for update in reversed(xref_list): source.obj_offsets.update(update)
RECURSIVE MergeOffsets(_, _)
MergeOffsets(offsets, list) ==
    IF list = <<>> THEN offsets
    ELSE MergeOffsets(Update(offsets, list[Len(list)]),
                      SubSeq(list, 1, Len(list) - 1))

\* Mutant: the newest trailer alone (trailer = original_trailer).
MergeTrailerNewestOnly(last, original, list) ==
    IF list # <<>> THEN original ELSE last

\* if xref_list: trailer.update(original_trailer)
MergeTrailer(last, original, list) ==
    IF list # <<>> THEN Update(last, original) ELSE last

\* Mutant: the trailer's Version always replaces the header's.
NewVersionAlways(current, tr) ==
    IF "Version" \in DOMAIN tr THEN tr["Version"] ELSE current

\* if trailer.Version and float(trailer.Version) > float(self.version)
NewVersion(current, tr) ==
    IF "Version" \in DOMAIN tr /\ tr["Version"] > current
    THEN tr["Version"] ELSE current

\* PdfDict(Root=trailer.Root, Info=trailer.Info, ID=trailer.ID)
DocumentKeys(tr) == [k \in DOMAIN tr \cap TrailerFields |-> tr[k]]

\* int(self.source.obj_offsets.get(key, '0')): where loadindirect seeks.
SeekOffset(offsets, key) == Get(offsets, key, 0)

(***************************************************************************)
(* PdfReader.__init__, from findxref to self.update(trailer).              *)
(***************************************************************************)

\* The reader's other parts, untouched while __init__ walks the chain.
LoaderIdle ==
    /\ ipc = "idle"
    /\ floc = 0
    /\ obj_offsets = EmptyDict
    /\ xref_list = <<>>
    /\ trailer = EmptyDict
    /\ original_trailer = EmptyDict
    /\ header = 0
    /\ version = 0
    /\ doc = EmptyDict
    /\ sections = <<>>

PagesIdle ==
    /\ ppc = "idle"
    /\ tree = EmptyDict
    /\ pages = <<>>
    /\ page_errors = {}

StreamIdle ==
    /\ spc = "idle"
    /\ fdata = <<>>
    /\ tokstart = 0
    /\ Length = 0
    /\ stream = None
    /\ stream_log = <<>>
    /\ stream_floc = 0
    /\ fast_path = FALSE

TableIdle ==
    /\ tpc = "idle"
    /\ objects = EmptyDict
    /\ indirect_objects = EmptyDict
    /\ deferred_objects = {}
    /\ made = EmptyDict
    /\ call = EmptyDict
    /\ first_loaded = EmptyDict
    /\ prev = {}
    /\ todo = {}
    /\ attempts = EmptyDict

InitLoader(headers) ==
    /\ PagesIdle
    /\ StreamIdle
    /\ TableIdle
    /\ ipc = "xref"
    /\ floc = 1
    /\ obj_offsets = EmptyDict
    /\ xref_list = <<>>
    /\ trailer = EmptyDict
    /\ original_trailer = EmptyDict
    /\ header \in headers
    /\ version = header
    /\ doc = EmptyDict
    /\ sections = <<>>

\* One pass of the while loop over a section whose trailer has a Prev.
FollowPrev(table, tr) ==
    /\ ipc = "xref"
    /\ Len(xref_list) < MaxSections - 1
    /\ LET prev_floc == floc + 1
           read == tr @@ ("Prev" :> prev_floc)
           first == xref_list = <<>>
           kept == IF first THEN DelKey(read, "Prev") ELSE read
       IN /\ sections' = Append(sections,
                            [offsets |-> RecordedOffsets(table), trailer |-> read])
          /\ obj_offsets' = parse_xref_table(table, EmptyDict)
          /\ trailer' = kept
          /\ original_trailer' = IF first THEN kept ELSE original_trailer
          /\ floc' = prev_floc
          /\ xref_list' = Append(xref_list, obj_offsets')
    /\ ipc' = "xref"
    /\ UNCHANGED <<version, doc, header>>
    /\ UNCHANGED <<pageVars, streamVars, tableVars>>

\* The pass over the section whose trailer has no Prev, and the rest of
\* __init__: the merge, the version and the trailer that is kept.
EndOfChain(table, tr) ==
    /\ ipc = "xref"
    /\ LET parsed == parse_xref_table(table, EmptyDict)
           merged == MergeTrailer(tr, original_trailer, xref_list)
       IN /\ sections' = Append(sections,
                            [offsets |-> RecordedOffsets(table), trailer |-> tr])
          /\ obj_offsets' = MergeOffsets(parsed, xref_list)
          /\ trailer' = DocumentKeys(merged)
          /\ version' = NewVersion(version, merged)
          /\ doc' = DocumentKeys(merged)
    /\ ipc' = "done"
    /\ UNCHANGED <<floc, xref_list, original_trailer, header>>
    /\ UNCHANGED <<pageVars, streamVars, tableVars>>

\* The trailers the section at the reader's position can have.
TrailerChoices(versions) ==
    IF versions = {} THEN PlainTrailersOf(Len(sections) + 1)
    ELSE TrailersOf(Len(sections) + 1, versions)

\* Files whose sections differ in their tables.
InitXref == InitLoader({15})

NextXref ==
    \/ \E table \in XrefTables, tr \in TrailerChoices({}) : FollowPrev(table, tr)
    \/ \E table \in XrefTables, tr \in TrailerChoices({}) : EndOfChain(table, tr)

SpecXref == InitXref /\ [][NextXref]_vars

\* Files whose sections differ in their trailers.
InitTrailer == InitLoader(HeaderVersions)

NextTrailer ==
    \/ \E tr \in TrailerChoices(TrailerVersions) : FollowPrev(<<>>, tr)
    \/ \E tr \in TrailerChoices(TrailerVersions) : EndOfChain(<<>>, tr)

SpecTrailer == InitTrailer /\ [][NextTrailer]_vars

(***************************************************************************)
(* Claims about the xref chain.                                            *)
(***************************************************************************)

\* The sections (newest first) whose table records an offset for key.
Holders(key) == { i \in 1..Len(sections) : key \in DOMAIN sections[i].offsets }

Newest(S) == CHOOSE i \in S : \A j \in S : i <= j

\* C1: when __init__ has merged the chain S0 (newest) ... Sn (oldest), the
\* object-offset map holds exactly the identities some section records,
\* each with the offset of the newest section that records it, and that is
\* the offset loadindirect seeks to.
C1_NewestOffsetWins ==
    ipc = "done" =>
        /\ DOMAIN obj_offsets = { key \in Keys : Holders(key) # {} }
        /\ \A key \in Keys :
              Holders(key) # {} =>
                  SeekOffset(obj_offsets, key)
                      = sections[Newest(Holders(key))].offsets[key]

\* C1 witness: a chain of three sections in which S0 and an older section
\* record different offsets for one identity, and S1 and S2 for another.
C1_Witness ==
    /\ ipc = "done"
    /\ Len(sections) = 3
    /\ \E key \in Keys :
          /\ {1, 3} \subseteq Holders(key)
          /\ sections[1].offsets[key] # sections[3].offsets[key]
          /\ obj_offsets[key] = sections[1].offsets[key]
    /\ \E key \in Keys :
          /\ Holders(key) = {2, 3}
          /\ sections[2].offsets[key] # sections[3].offsets[key]

NewestTrailer == sections[1].trailer
OldestTrailer == sections[Len(sections)].trailer

\* C8 as stated: the Document's Root, Info and ID are those of the newest
\* section's trailer only; a field it lacks is absent from the Document.
C8_NewestTrailerOnly ==
    ipc = "done" => doc = DocumentKeys(NewestTrailer)

\* C8 amended: each of Root, Info and ID is the newest trailer's when it has
\* the field, else the oldest trailer's (the last of the Prev chain) when
\* that has it, else absent; the trailers in between contribute nothing.
C8_NewestOverOldest ==
    ipc = "done" =>
        \A f \in TrailerFields :
            IF f \in DOMAIN NewestTrailer
            THEN f \in DOMAIN doc /\ doc[f] = NewestTrailer[f]
            ELSE IF f \in DOMAIN OldestTrailer
            THEN f \in DOMAIN doc /\ doc[f] = OldestTrailer[f]
            ELSE f \notin DOMAIN doc

\* C8 witness: three sections; the newest trailer lacks Info, the two older
\* ones have it, and the Document holds the oldest one's.
C8_Witness ==
    /\ ipc = "done"
    /\ Len(sections) = 3
    /\ "Info" \notin DOMAIN NewestTrailer
    /\ "Info" \in DOMAIN sections[2].trailer
    /\ "Info" \in DOMAIN OldestTrailer
    /\ "Root" \in DOMAIN NewestTrailer
    /\ "Root" \in DOMAIN OldestTrailer
    /\ doc["Info"] = OldestTrailer["Info"]
    /\ doc["Root"] = NewestTrailer["Root"]

Max(S) == CHOOSE x \in S : \A y \in S : y <= x

\* The Versions the trailers of the chain declare.
DeclaredVersions ==
    { sections[i].trailer["Version"] :
        i \in { j \in 1..Len(sections) : "Version" \in DOMAIN sections[j].trailer } }

\* C9 as stated: the document version is the maximum of the header's
\* version and every Version a trailer of the chain declares.
C9_MaxOverChain ==
    ipc = "done" => version = Max({header} \cup DeclaredVersions)

\* C9 amended: the document version is the larger of the header's version
\* and one trailer Version: the newest trailer's if it declares one, else
\* the oldest trailer's; the Versions of the other trailers are ignored.
C9_MaxOfHeaderAndMerged ==
    ipc = "done" =>
        version = Max({header}
                      \cup (IF "Version" \in DOMAIN NewestTrailer
                            THEN {NewestTrailer["Version"]}
                            ELSE IF "Version" \in DOMAIN OldestTrailer
                            THEN {OldestTrailer["Version"]}
                            ELSE {}))

\* C9 witness: three sections, the newest trailer declares a Version above
\* the header's, the one after it a higher one, and the newest's is kept.
C9_Witness ==
    /\ ipc = "done"
    /\ Len(sections) = 3
    /\ "Version" \in DOMAIN NewestTrailer
    /\ "Version" \in DOMAIN sections[2].trailer
    /\ header < NewestTrailer["Version"]
    /\ NewestTrailer["Version"] < sections[2].trailer["Version"]
    /\ version = NewestTrailer["Version"]

(***************************************************************************)
(* readpages: the walk over the page tree.                                 *)
(***************************************************************************)

\* The most nodes a page tree has.
MaxNodes == 5

Nodes == 1..MaxNodes

\* The ascending sequence of a set of numbers.
RECURSIVE Ascending(_)
Ascending(S) ==
    IF S = {} THEN <<>>
    ELSE LET least == CHOOSE x \in S : \A y \in S : x <= y
         IN <<least>> \o Ascending(S \ {least})

Reverse(s) == [i \in 1..Len(s) |-> s[Len(s) + 1 - i]]

\* The page trees: node 1 is the root, a /Catalog (whose /Pages entry is its
\* one child, if it has one) or a /Pages node; every other node is the kid of
\* an earlier node and is a /Pages node, a /Page (a leaf) or a dictionary of
\* another /Type; a node's /Kids array lists its children in ascending or in
\* descending order of their numbers.
PageTrees ==
    { [ntype |-> ntype, kids |-> kids] :
        ntype \in { f \in [Nodes -> {"/Catalog", "/Pages", "/Page", "/Font"}] :
                       /\ f[1] \in {"/Catalog", "/Pages"}
                       /\ \A n \in Nodes \ {1} : f[n] # "/Catalog" },
        kids \in { [n \in Nodes |->
                      LET children == { c \in Nodes \ {1} : parent[c] = n }
                      IN IF down THEN Reverse(Ascending(children))
                         ELSE Ascending(children)] :
                    parent \in { f \in [Nodes \ {1} -> Nodes] :
                                   \A c \in Nodes \ {1} : f[c] < c },
                    down \in BOOLEAN } }

WellFormed(t) ==
    /\ t.ntype[1] \in {"/Catalog", "/Pages"}
    /\ t.ntype[1] = "/Catalog" => Len(t.kids[1]) <= 1
    /\ \A n \in Nodes \ {1} : t.ntype[n] # "/Catalog"
    /\ \A n \in Nodes : t.ntype[n] = "/Page" => t.kids[n] = <<>>

\* Mutant: a /Pages node's kids are walked right to left.
KidsInOrderReversed(t, node) == Reverse(t.kids[node])

\* for node in node[kidname]
KidsInOrder(t, node) == t.kids[node]

\* The generator readnode: the nodes it yields, in the order it yields them,
\* and the nodes it reports with log.error.  A /Catalog with no /Pages entry
\* makes node[typename] fail on None: the TypeError that readpages catches.
RECURSIVE readnode(_, _)
RECURSIVE readkids(_, _)
readnode(t, node) ==
    LET nodetype == t.ntype[node] IN
    IF nodetype = "/Page"
    THEN [yield |-> <<node>>, errors |-> {}, raised |-> FALSE]
    ELSE IF nodetype = "/Pages"
    THEN readkids(t, KidsInOrder(t, node))
    ELSE IF nodetype = "/Catalog"
    THEN IF t.kids[node] = <<>>
         THEN [yield |-> <<>>, errors |-> {}, raised |-> TRUE]
         ELSE readnode(t, t.kids[node][1])
    ELSE [yield |-> <<>>, errors |-> {node}, raised |-> FALSE]

readkids(t, kids) ==
    IF kids = <<>> THEN [yield |-> <<>>, errors |-> {}, raised |-> FALSE]
    ELSE LET first == readnode(t, Head(kids)) IN
         IF first.raised THEN first
         ELSE LET rest == readkids(t, Tail(kids))
              IN [yield |-> first.yield \o rest.yield,
                  errors |-> first.errors \cup rest.errors,
                  raised |-> rest.raised]

\* try: return list(readnode(node))  except (AttributeError, TypeError): return []
readpages(t, node) ==
    LET walk == readnode(t, node)
    IN [pages |-> IF walk.raised THEN <<>> ELSE walk.yield,
        errors |-> walk.errors]

InitPages ==
    /\ LoaderIdle
    /\ StreamIdle
    /\ TableIdle
    /\ ppc = "start"
    /\ tree \in { t \in PageTrees : WellFormed(t) }
    /\ pages = <<>>
    /\ page_errors = {}

\* private.pages = self.readpages(self.Root)
ReadPages ==
    /\ ppc = "start"
    /\ pages' = readpages(tree, 1).pages
    /\ page_errors' = readpages(tree, 1).errors
    /\ ppc' = "done"
    /\ UNCHANGED tree
    /\ UNCHANGED <<initVars, streamVars, tableVars>>

NextPages == ReadPages

SpecPages == InitPages /\ [][NextPages]_vars

(***************************************************************************)
(* Claims about the page tree.                                             *)
(***************************************************************************)

ParentOf(n) == CHOOSE p \in Nodes : \E i \in 1..Len(tree.kids[p]) : tree.kids[p][i] = n

\* The position of a node among its parent's kids.
KidIndex(n) == CHOOSE i \in 1..Len(tree.kids[ParentOf(n)]) : tree.kids[ParentOf(n)][i] = n

\* The path of kid indexes from the root to a node.
RECURSIVE PathTo(_)
PathTo(n) == IF n = 1 THEN <<>> ELSE Append(PathTo(ParentOf(n)), KidIndex(n))

RECURSIVE Ancestors(_)
Ancestors(n) == IF n = 1 THEN {} ELSE {ParentOf(n)} \cup Ancestors(ParentOf(n))

\* Depth-first pre-order: p comes before q when p's path is lexicographically
\* smaller (neither of two pages is an ancestor of the other).
Before(p, q) ==
    \E i \in 1..Len(p) :
        /\ i <= Len(q)
        /\ SubSeq(p, 1, i - 1) = SubSeq(q, 1, i - 1)
        /\ p[i] < q[i]

\* The /Page nodes of the tree proper: those below /Pages nodes (and the
\* /Catalog) only; what hangs below a node of another type is not in it.
TreePages ==
    { n \in Nodes :
        /\ tree.ntype[n] = "/Page"
        /\ \A a \in Ancestors(n) : tree.ntype[a] \in {"/Catalog", "/Pages"} }

\* C7: readpages returns exactly the /Page nodes of the tree, each once, in
\* depth-first pre-order with every /Kids array followed left to right; a
\* node of another type contributes nothing and its siblings are still
\* walked.
C7_PagesInPreOrder ==
    ppc = "done" =>
        /\ { pages[i] : i \in 1..Len(pages) } = TreePages
        /\ Len(pages) = Cardinality(TreePages)
        /\ \A i, j \in 1..Len(pages) :
              i < j => Before(PathTo(pages[i]), PathTo(pages[j]))

\* C7 witness: Pages(kids=[A, Pages(kids=[B, C])]) with A = 2, B = 4, C = 5
\* gave [A, B, C].
C7_Witness ==
    /\ ppc = "done"
    /\ tree.ntype = [n \in Nodes |-> IF n \in {1, 3} THEN "/Pages" ELSE "/Page"]
    /\ tree.kids[1] = <<2, 3>>
    /\ tree.kids[3] = <<4, 5>>
    /\ pages = <<2, 4, 5>>

(***************************************************************************)
(* findstream and readstream: the bytes of a stream body.                  *)
(*                                                                         *)
(* Positions are Python's: fdata's first character is at position 0.       *)
(***************************************************************************)

\* The longest stream body in the files.
MaxBody == 2

\* maxstream = len(fdata) - 20
MaxstreamMargin == 20

CR == "\r"
LF == "\n"
Whitespace == {" ", CR, LF}

StreamKeyword == <<"s", "t", "r", "e", "a", "m">>
EndstreamKeyword == <<"e", "n", "d", "s", "t", "r", "e", "a", "m">>
EndobjKeyword == <<"e", "n", "d", "o", "b", "j">>

\* A run of n filler characters.
Filler(n) == [i \in 1..n |-> "x"]

\* The files: ">>stream", the end of line after the keyword, the body,
\* "endstream", a line feed, "endobj" and the rest of the file.  The end of
\* line is the longest the bytes allow, so the body that follows a bare \r
\* does not start with \n.  The rest of the file is long enough for both
\* keywords to lie below maxstream (20), for endstream only (13), or for
\* neither (3).
Bodies ==
    UNION { [1..n -> {"a", " ", LF}] : n \in 0..MaxBody }

EndsOfLine == { <<>>, <<LF>>, <<CR>>, <<CR, LF>> }

StreamFiles ==
    { [eol |-> eol, body |-> body, rest |-> rest] :
        eol \in EndsOfLine, body \in Bodies, rest \in {3, 13, 20} }

Canonical(f) ==
    f.body # <<>> /\ f.body[1] = LF => f.eol \in { <<LF>>, <<CR, LF>> }

Bytes(f) ==
    <<">", ">">> \o StreamKeyword \o f.eol \o f.body \o EndstreamKeyword
        \o <<LF>> \o EndobjKeyword \o <<LF>> \o Filler(f.rest)

Min(a, b) == IF a < b THEN a ELSE b

\* fdata[a:b]
Slice(a, b) ==
    IF a < Min(b, Len(fdata)) THEN SubSeq(fdata, a + 1, Min(b, Len(fdata))) ELSE <<>>

\* fdata.find(sub, start, end)
Find(sub, start, end) ==
    LET found == { i \in start..(Min(end, Len(fdata)) - Len(sub)) :
                      Slice(i, i + Len(sub)) = sub }
    IN IF found = {} THEN -1
       ELSE CHOOSE i \in found : \A j \in found : i <= j

\* str.rstrip()
RECURSIVE RStrip(_)
RStrip(str) ==
    IF str # <<>> /\ str[Len(str)] \in Whitespace
    THEN RStrip(SubSeq(str, 1, Len(str) - 1)) ELSE str

\* The tokenizer (PdfTokens), for files without delimiter characters: the
\* token that starts at or after position p is the next run of characters
\* that are not whitespace.
TokenStart(p) ==
    LET starts == { i \in p..(Len(fdata) - 1) : fdata[i + 1] \notin Whitespace }
    IN IF starts = {} THEN -1 ELSE CHOOSE i \in starts : \A j \in starts : i <= j

TokenEnd(p) ==
    LET ends == { i \in p..(Len(fdata) - 1) : fdata[i + 1] \in Whitespace }
    IN IF ends = {} THEN Len(fdata) ELSE CHOOSE i \in ends : \A j \in ends : i <= j

\* source.multiple(n) from position p: the tokens read, fewer at the end.
RECURSIVE Multiple(_, _)
Multiple(p, n) ==
    IF n = 0 \/ TokenStart(p) < 0 THEN <<>>
    ELSE <<Slice(TokenStart(p), TokenEnd(TokenStart(p)))>>
            \o Multiple(TokenEnd(TokenStart(p)), n - 1)

Warning(msg) == [level |-> "warning", msg |-> msg]
Error(msg) == [level |-> "error", msg |-> msg]

\* findstream: the start of the body, after one optional \r and one optional
\* \n, and what it reports.
findstream(start) ==
    LET after == start + Len(StreamKeyword)
        gotcr == fdata[after + 1] = CR
        skipcr == IF gotcr THEN after + 1 ELSE after
        gotlf == fdata[skipcr + 1] = LF
        startstream == IF gotlf THEN skipcr + 1 ELSE skipcr
    IN [startstream |-> startstream,
        log |-> IF gotlf THEN <<>>
                ELSE IF ~gotcr THEN <<Error("stream keyword not followed by \\n")>>
                ELSE <<Warning("stream keyword terminated by \\r without \\n")>>]

\* Mutant: the repair keeps the Length-trusting window where it was.
ShiftedWindowUnshifted(startstream, target_endstream) ==
    Slice(startstream, target_endstream)

\* obj._stream = fdata[startstream - 1:target_endstream - 1]
ShiftedWindow(startstream, target_endstream) ==
    Slice(startstream - 1, target_endstream - 1)

\* readstream: the body stored, what is reported, and where the cursor is
\* left.
readstream(startstream, length) ==
    LET target_endstream == startstream + length
        endit == Multiple(target_endstream, 2)
        trusted == Slice(startstream, target_endstream)
        maxstream == Len(fdata) - MaxstreamMargin
        endstream == Find(EndstreamKeyword, startstream, maxstream)
        room == endstream - startstream
        endobj == Find(EndobjKeyword, endstream, maxstream)
        Result(body, log, at, fast) ==
            [stream |-> body, log |-> log, floc |-> at, fast |-> fast]
    IN IF endit = <<EndstreamKeyword, EndobjKeyword>>
       THEN Result(trusted, <<>>, TokenEnd(TokenStart(TokenEnd(
                        TokenStart(target_endstream)))), TRUE)
       ELSE IF endstream < 0
       THEN Result(trusted, <<Error("Could not find endstream")>>,
                   startstream, FALSE)
       ELSE IF length = room + 1 /\ Slice(startstream - 2, startstream) = <<CR, LF>>
       THEN Result(ShiftedWindow(startstream, target_endstream),
                   <<Warning("stream keyword terminated by \\r without \\n")>>,
                   startstream, FALSE)
       ELSE IF length > room
       THEN Result(Slice(startstream, endstream),
                   <<Error("stream /Length attribute appears to be too big")>>,
                   endstream, FALSE)
       ELSE IF RStrip(Slice(target_endstream, endstream)) # <<>>
       THEN Result(Slice(startstream, endstream),
                   <<Error("stream /Length attribute appears to be too small")>>,
                   endstream, FALSE)
       ELSE IF endobj < 0
       THEN Result(trusted, <<Error("Could not find endobj after endstream")>>,
                   endstream, FALSE)
       ELSE IF RStrip(Slice(endstream, endobj)) # EndstreamKeyword
       THEN Result(trusted, <<Error("Unexpected data between endstream and endobj")>>,
                   endstream, FALSE)
       ELSE Result(trusted, <<Error("Illegal endstream/endobj combination")>>,
                   endstream, FALSE)

InitStream ==
    /\ LoaderIdle
    /\ PagesIdle
    /\ TableIdle
    /\ spc = "start"
    /\ \E f \in { g \in StreamFiles : Canonical(g) } : fdata = Bytes(f)
    /\ tokstart = 2
    /\ Length \in 0..(MaxBody + 2)
    /\ stream = None
    /\ stream_log = <<>>
    /\ stream_floc = tokstart + Len(StreamKeyword)
    /\ fast_path = FALSE

\* self.readstream(obj, self.findstream(obj, tok, source), source)
ReadStream ==
    /\ spc = "start"
    /\ LET found == findstream(tokstart)
           read == readstream(found.startstream, Length)
       IN /\ stream' = read.stream
          /\ stream_log' = found.log \o read.log
          /\ stream_floc' = read.floc
          /\ fast_path' = read.fast
    /\ spc' = "done"
    /\ UNCHANGED <<fdata, tokstart, Length>>
    /\ UNCHANGED <<initVars, pageVars, tableVars>>

NextStream == ReadStream

SpecStream == InitStream /\ [][NextStream]_vars

(***************************************************************************)
(* Claims about the stream extractor.                                      *)
(***************************************************************************)

\* Where the stream keyword ends, and the one or two characters of its end
\* of line.
KeywordEnd == tokstart + Len(StreamKeyword)

BareCR == fdata[KeywordEnd + 1] = CR /\ fdata[KeywordEnd + 2] # LF

CRThenLF == fdata[KeywordEnd + 1] = CR /\ fdata[KeywordEnd + 2] = LF

\* Where the true endstream keyword is: the files hold no other.
TrueEndstream == Find(EndstreamKeyword, KeywordEnd, Len(fdata))

Levels == { stream_log[i].level : i \in 1..Len(stream_log) }

\* C10 as stated: the fast path failed, the keyword is terminated by \r
\* without \n and Length is one byte less than the distance from that \r to
\* the true endstream (which lies below maxstream); then the body stored is
\* the bytes from after the \r to the true endstream, and only warnings are
\* logged.
C10_ShortLengthBareCR ==
    (/\ spc = "done"
     /\ ~fast_path
     /\ BareCR
     /\ TrueEndstream + Len(EndstreamKeyword) <= Len(fdata) - MaxstreamMargin
     /\ Length = TrueEndstream - (KeywordEnd + 1) - 1)
    => /\ stream = Slice(KeywordEnd + 1, TrueEndstream)
       /\ Levels = {"warning"}

\* C10 amended: the keyword is followed by \r\n, endstream lies below
\* maxstream, and Length is one byte more than the distance from after the
\* \r\n to endstream (the keyword really ended at the \r and the data starts
\* with the \n).  Then the fast path fails, the body stored is the Length
\* bytes from that \n to endstream, and the one thing logged is the warning.
C10_LengthCountsLF ==
    (/\ spc = "done"
     /\ CRThenLF
     /\ TrueEndstream + Len(EndstreamKeyword) <= Len(fdata) - MaxstreamMargin
     /\ Length = TrueEndstream - (KeywordEnd + 2) + 1)
    => /\ ~fast_path
       /\ stream = Slice(KeywordEnd + 1, TrueEndstream)
       /\ Len(stream) = Length
       /\ stream_log = <<Warning("stream keyword terminated by \\r without \\n")>>

\* C10 witness: "stream\r\n" + "aa" + "endstream" with Length 3 was read as the
\* three bytes "\naa".
C10_Witness ==
    /\ spc = "done"
    /\ CRThenLF
    /\ Length = 3
    /\ stream = <<LF, "a", "a">>
    /\ TrueEndstream = KeywordEnd + 4
    /\ ~fast_path
    /\ Levels = {"warning"}

(***************************************************************************)
(* The Indirect Object Table: findindirect, loadindirect, read_all and     *)
(* load_stream_objects, called in any order on a reader whose __init__ has *)
(* merged the offset map.                                                  *)
(***************************************************************************)

\* The most objects created for one identity (load_stream_objects can be
\* called again and again).
MaxInstances == 3

\* Tokens are digit sequences; int() is their value, so "01" and "1" name
\* the same object.
RECURSIVE int(_)
int(tok) ==
    IF tok = <<>> THEN 0
    ELSE 10 * int(SubSeq(tok, 1, Len(tok) - 1)) + tok[Len(tok)]

ObjnumTokens == { <<1>>, <<0, 1>>, <<2>> }
GennumTokens == { <<0>> }

\* The offsets at which the file holds an indirect object.
Slots == {1, 2}

\* What is written at an offset: the "N G obj" header, the value (a
\* dictionary with its indirect references, or a stray delimiter), the token
\* after the value, and for an object stream its /Type and the objects
\* packed in it.
Dictionaries ==
    [hdr : Keys, value : {"dict"}, refs : SUBSET Keys, tail : {"endobj"},
     type : {None}, members : {{}}]
    \cup
    [hdr : Keys, value : {"dict"}, refs : {{}}, tail : {"junk"},
     type : {None}, members : {{}}]

Streams ==
    [hdr : Keys, value : {"dict"}, refs : {{}}, tail : {"stream"},
     type : {None}, members : {{}}]

StrayDelimiters ==
    [hdr : Keys, value : {"bad"}, refs : {{}}, tail : {"endobj"},
     type : {None}, members : {{}}]

ObjectStreams ==
    [hdr : Keys, value : {"dict"}, refs : {{}}, tail : {"stream"},
     type : {"/ObjStm"},
     members : { {[num |-> n, refs |-> {}]} : n \in ObjNums }]

\* "N G obj endobj": the token in value position is endobj.
EmptyObjects ==
    [hdr : Keys, value : {"empty"}, refs : {{}}, tail : {"endobj"},
     type : {None}, members : {{}}]

FileObjects ==
    Dictionaries \cup Streams \cup StrayDelimiters \cup ObjectStreams
                 \cup EmptyObjects

\* Python's None where an object is expected, and the objects: a PdfIndirect
\* placeholder or a parsed value, each a fresh instance with an id of its
\* own, and the offset it was parsed at (0: not parsed at an offset).
NoneValue == [kind |-> "None", id |-> <<>>, at |-> 0]

NewInstance(st, key, kind, at) ==
    [kind |-> kind, id |-> <<key, st.made[key] + 1>>, at |-> at]

\* d[key] = value
SetItem(d, key, value) ==
    [k \in DOMAIN d \cup {key} |-> IF k = key THEN value ELSE d[k]]

\* self.indirect_objects[key] = inst, for an instance just created
Store(st, key, inst) ==
    [st EXCEPT !.tab = SetItem(st.tab, key, inst), !.made[key] = @ + 1]

\* Mutant: the lookup never finds the identity.
LookupMisses(tab, key) == NoneValue

\* self.indirect_objects.get(key)
Lookup(tab, key) == Get(tab, key, NoneValue)

\* findindirect, on the key it computed
findindirect(st, key) ==
    LET result == Lookup(st.tab, key) IN
    IF result = NoneValue
    THEN LET placeholder == NewInstance(st, key, "indirect", 0)
         IN [st |-> [Store(st, key, placeholder) EXCEPT !.def = @ \cup {key}],
             ret |-> placeholder, found |-> FALSE]
    ELSE [st |-> st, ret |-> result, found |-> TRUE]

\* readdict / readarray over a value: findindirect for each "N G R" in it.
RECURSIVE Discover(_, _)
Discover(st, refs) ==
    IF refs = {} THEN st
    ELSE LET key == CHOOSE k \in refs : TRUE
         IN Discover(findindirect(st, key).st, refs \ {key})

Outcome(st, ret, log, seeks, raised) ==
    [st |-> st, ret |-> ret, log |-> log, seeks |-> seeks, raised |-> raised]

\* Mutant: the resolved identity stays in the deferred set.
RemoveDeferredKeeps(st, key) == st

\* self.deferred_objects.remove(key)
RemoveDeferred(st, key) == [st EXCEPT !.def = @ \ {key}]

\* Mutant: a missing offset is a fatal error.
NotFoundRaises(st, key) ==
    Outcome(st, NoneValue, <<>>, <<>>, TRUE)

\* if not offset: source.warning("Did not find PDF object %s", key); return None
NotFound(st, key) ==
    Outcome(st, NoneValue, <<Warning("Did not find PDF object")>>, <<>>, FALSE)

\* The header search of the recovery: the first place "N G obj" is found
\* after a line end (every header of the files follows a \n), 0 if it is
\* found nowhere or found again further on.
RecoveredOffset(key) ==
    LET found == { o \in DOMAIN objects : objects[o].hdr = key } IN
    IF found = {} THEN 0
    ELSE LET offset2 == CHOOSE o \in found : \A q \in found : o <= q
         IN IF \E o \in found : o > offset2 THEN 0 ELSE offset2

\* empty_obj: source.floc = source.tokstart, so that the next token read is
\* the endobj again; the function has no return statement, its value is None.
empty_obj == NoneValue

\* loadindirect from "obj = source.next()" on, reading at offset: the value
\* is parsed, stored, and taken off the deferred set; a value followed by
\* endobj or by a stream is returned, anything else is replaced by an empty
\* PdfObject.  With the None of empty_obj stored, "obj.indirect = key" at
\* line 222 raises AttributeError.  (readstream's own diagnostics are the stream extractor's.)
ParseObject(st, key, offset, log, seeks) ==
    LET obj == objects[offset] IN
    IF obj.value = "bad"
    THEN Outcome(st, NoneValue, log, seeks, TRUE)
    ELSE IF obj.value = "empty"
    THEN Outcome(RemoveDeferred([st EXCEPT !.tab = SetItem(@, key, empty_obj)], key),
                 NoneValue, log, seeks, TRUE)
    ELSE LET parsed == Discover(st, obj.refs)
             first == NewInstance(parsed, key, "object", offset)
             stored == RemoveDeferred(Store(parsed, key, first), key)
         IN IF obj.tail \in {"endobj", "stream"}
            THEN Outcome(stored, first, log, seeks, FALSE)
            ELSE LET second == NewInstance(stored, key, "object", 0)
                 IN Outcome(Store(stored, key, second), second,
                            log \o <<Error("Expected 'endobj' or 'stream' token")>>,
                            seeks, FALSE)

loadindirect(st, key) ==
    LET result == Lookup(st.tab, key) IN
    IF result.kind # "indirect"
    THEN Outcome(st, result, <<>>, <<>>, FALSE)
    ELSE LET offset == SeekOffset(obj_offsets, key) IN
         IF offset = 0 THEN NotFound(st, key)
         ELSE IF objects[offset].hdr = key
         THEN ParseObject(st, key, offset, <<>>, <<offset>>)
         ELSE LET offset2 == RecoveredOffset(key) IN
              IF offset2 = 0
              THEN Outcome(st, NoneValue, <<Warning("Expected indirect object")>>,
                           <<offset>>, FALSE)
              ELSE ParseObject(st, key, offset2,
                        <<Warning("Indirect object found at incorrect offset")>>,
                        <<offset, offset2>>)

\* obj.Type of a loaded object
TypeOf(inst) == IF inst.at = 0 THEN None ELSE objects[inst.at].type

\* load_stream_objects, first loop: findindirect(num, 0).real_value() loads
\* each container; one that is not an /ObjStm dictionary ends the call with
\* an exception.
RECURSIVE LoadContainers(_, _, _, _)
LoadContainers(st, order, objs, log) ==
    IF order = <<>> THEN [st |-> st, objs |-> objs, log |-> log, raised |-> FALSE]
    ELSE LET key == <<Head(order), 0>>
             loaded == loadindirect(findindirect(st, key).st, key)
         IN IF loaded.raised \/ loaded.ret.kind # "object"
                             \/ TypeOf(loaded.ret) # "/ObjStm"
            THEN [st |-> loaded.st, objs |-> objs, log |-> log \o loaded.log,
                  raised |-> TRUE]
            ELSE LoadContainers(loaded.st, Tail(order), Append(objs, loaded.ret),
                                log \o loaded.log)

\* load_stream_objects, lines 292-305: a member is parsed and stored.
InsertMember(st, member) ==
    LET key == <<member.num, 0>>
        parsed == Discover(st, member.refs)
    IN RemoveDeferred(Store(parsed, key, NewInstance(parsed, key, "object", 0)), key)

RECURSIVE InsertMembers(_, _)
InsertMembers(st, members) ==
    IF members = {} THEN st
    ELSE LET member == CHOOSE m \in members : TRUE
         IN InsertMembers(InsertMember(st, member), members \ {member})

RECURSIVE ExpandStreams(_, _)
ExpandStreams(st, objs) ==
    IF objs = <<>> THEN st
    ELSE ExpandStreams(InsertMembers(st, objects[Head(objs).at].members), Tail(objs))

load_stream_objects(st, order) ==
    LET loaded == LoadContainers(st, order, <<>>, <<>>) IN
    IF loaded.raised THEN Outcome(loaded.st, NoneValue, loaded.log, <<>>, TRUE)
    ELSE Outcome(ExpandStreams(loaded.st, loaded.objs), NoneValue, loaded.log,
                 <<>>, FALSE)

\* Mutant: every deferred key is new, whatever prev holds.
NewKeysIgnoringPrev(deferred, seen) == deferred

\* new = deferred - prev
NewKeys(deferred, seen) == deferred \ seen

(***************************************************************************)
(* The calls.                                                              *)
(***************************************************************************)

TableState ==
    [tab |-> indirect_objects, def |-> deferred_objects, made |-> made]

SetTable(st) ==
    /\ indirect_objects' = st.tab
    /\ deferred_objects' = st.def
    /\ made' = st.made

KindOf(key) == Lookup(indirect_objects, key).kind

Called(op, key, was, r) ==
    [op |-> op, key |-> key, was |-> was, ret |-> r.ret, log |-> r.log,
     seeks |-> r.seeks, raised |-> r.raised,
     again |-> key \in DOMAIN first_loaded]

\* The offset maps __init__ can have merged, and the files.
InitTable ==
    /\ PagesIdle
    /\ StreamIdle
    /\ ipc = "done"
    /\ floc = 0
    /\ obj_offsets \in UNION { [ks -> Slots] : ks \in SUBSET Keys }
    /\ xref_list = <<>>
    /\ trailer = EmptyDict
    /\ original_trailer = EmptyDict
    /\ header = 0
    /\ version = 0
    /\ doc = EmptyDict
    /\ sections = <<>>
    /\ tpc = "idle"
    /\ objects \in [Slots -> FileObjects]
    /\ indirect_objects = EmptyDict
    /\ deferred_objects = {}
    /\ made = [k \in Keys |-> 0]
    /\ call = [op |-> "init"]
    /\ first_loaded = EmptyDict
    /\ prev = {}
    /\ todo = {}
    /\ attempts = [k \in Keys |-> 0]

FindIndirect(objnum, gennum) ==
    /\ tpc = "idle"
    /\ made[<<int(objnum), int(gennum)>>] < MaxInstances
    /\ LET key == <<int(objnum), int(gennum)>>
           r == findindirect(TableState, key)
       IN /\ SetTable(r.st)
          /\ call' = Called("findindirect", key, KindOf(key),
                            Outcome(r.st, r.ret, <<>>, <<>>, FALSE))
    /\ UNCHANGED <<tpc, objects, first_loaded, prev, todo, attempts>>
    /\ UNCHANGED <<initVars, pageVars, streamVars>>

Remember(key, r) ==
    IF key \notin DOMAIN first_loaded /\ r.ret.kind = "object"
    THEN first_loaded @@ (key :> r.ret) ELSE first_loaded

LoadIndirect(key) ==
    /\ tpc = "idle"
    /\ LET r == loadindirect(TableState, key)
       IN /\ SetTable(r.st)
          /\ call' = Called("loadindirect", key, KindOf(key), r)
          /\ first_loaded' = Remember(key, r)
    /\ UNCHANGED <<tpc, objects, prev, todo, attempts>>
    /\ UNCHANGED <<initVars, pageVars, streamVars>>

\* load_stream_objects(object_streams), object_streams.iterkeys() giving the
\* containers in the order of the sequence.  real_value() is PdfIndirect's:
\* the containers are identities not yet loaded.
LoadStreamObjects(order) ==
    /\ tpc = "idle"
    /\ \A i \in 1..Len(order) : KindOf(<<order[i], 0>>) # "object"
    /\ \A k \in Keys : made[k] < MaxInstances
    /\ LET r == load_stream_objects(TableState, order)
       IN /\ SetTable(r.st)
          /\ call' = Called("load_stream_objects", <<>>, "None", r)
    /\ UNCHANGED <<tpc, objects, first_loaded, prev, todo, attempts>>
    /\ UNCHANGED <<initVars, pageVars, streamVars>>

\* read_all up to the first pass of its for loop, or its return when
\* nothing is deferred.
ReadAllStart ==
    /\ tpc = "idle"
    /\ LET new == NewKeys(deferred_objects, {})
       IN /\ tpc' = IF new = {} THEN "idle" ELSE "read_all"
          /\ prev' = IF new = {} THEN {} ELSE deferred_objects
          /\ todo' = new
    /\ attempts' = [k \in Keys |-> 0]
    /\ call' = Called("read_all", <<>>, "None",
                      Outcome(TableState, NoneValue, <<>>, <<>>, FALSE))
    /\ UNCHANGED <<objects, indirect_objects, deferred_objects, made, first_loaded>>
    /\ UNCHANGED <<initVars, pageVars, streamVars>>

\* One self.loadindirect(key) of the for loop; after the last one of a pass,
\* the while loop's next "new = deferred - prev", its break or its
\* "prev |= deferred".  An exception of loadindirect ends read_all.
ReadAllLoad ==
    /\ tpc = "read_all"
    /\ \E key \in todo :
        LET r == loadindirect(TableState, key)
            new == NewKeys(r.st.def, prev)
        IN /\ SetTable(r.st)
           /\ first_loaded' = Remember(key, r)
           /\ attempts' = [attempts EXCEPT ![key] = @ + 1]
           /\ call' = [Called("read_all", <<>>, "None", r) EXCEPT !.ret = NoneValue]
           /\ IF r.raised
              THEN tpc' = "idle" /\ todo' = {} /\ prev' = {}
              ELSE IF todo # {key}
              THEN tpc' = "read_all" /\ todo' = todo \ {key} /\ prev' = prev
              ELSE IF new = {}
              THEN tpc' = "idle" /\ todo' = {} /\ prev' = {}
              ELSE tpc' = "read_all" /\ todo' = new /\ prev' = prev \cup r.st.def
    /\ UNCHANGED objects
    /\ UNCHANGED <<initVars, pageVars, streamVars>>

Orders ==
    { <<n>> : n \in ObjNums } \cup
    { <<o[1], o[2]>> : o \in { p \in ObjNums \X ObjNums : p[1] # p[2] } }

NextTable ==
    \/ \E objnum \in ObjnumTokens, gennum \in GennumTokens : FindIndirect(objnum, gennum)
    \/ \E key \in Keys : LoadIndirect(key)
    \/ \E order \in Orders : LoadStreamObjects(order)
    \/ ReadAllStart
    \/ ReadAllLoad

SpecTable == InitTable /\ [][NextTable]_vars

\* read_all on files of complete objects (dictionaries closed by endobj, stray
\* delimiters, empty objects), and the calls a holder of the reader can make
\* between two read_all calls.  read_all is one Python call: once started,
\* its loop runs on.
InitReadAll ==
    /\ InitTable
    /\ \A o \in Slots :
          objects[o] \in Dictionaries \cup StrayDelimiters \cup EmptyObjects
    /\ \A o \in Slots : objects[o].tail = "endobj"

NextReadAll ==
    \/ \E objnum \in ObjnumTokens, gennum \in GennumTokens : FindIndirect(objnum, gennum)
    \/ \E key \in Keys : LoadIndirect(key)
    \/ ReadAllStart
    \/ ReadAllLoad

SpecReadAll == InitReadAll /\ [][NextReadAll]_vars /\ WF_vars(ReadAllLoad)

(***************************************************************************)
(* Claims about the Indirect Object Table.                                 *)
(***************************************************************************)

Placeholders ==
    { k \in DOMAIN indirect_objects : indirect_objects[k].kind = "indirect" }

Resolved ==
    { k \in DOMAIN indirect_objects : indirect_objects[k].kind = "object" }

FirstPlaceholder(key) == [kind |-> "indirect", id |-> <<key, 1>>, at |-> 0]

C2_OnePlaceholder ==
    \A k \in Placeholders : indirect_objects[k] = FirstPlaceholder(k)

C2_FindStep ==
    call'.op = "findindirect" =>
        /\ call'.was = "indirect" =>
              /\ call'.ret = FirstPlaceholder(call'.key)
              /\ call'.ret = indirect_objects[call'.key]
              /\ indirect_objects' = indirect_objects
              /\ deferred_objects' = deferred_objects
        /\ call'.was = "None" =>
              /\ call'.ret = FirstPlaceholder(call'.key)
              /\ indirect_objects'[call'.key] = call'.ret
              /\ deferred_objects' = deferred_objects \cup {call'.key}

\* C2: while an identity is unresolved, the table holds for it the
\* placeholder the first findindirect created, and no other placeholder ever;
\* every findindirect for it returns that instance and changes neither the
\* table nor the deferred set; only the call that finds no entry adds the
\* identity to the deferred set.
C2_FindIndirectIdempotent == []C2_OnePlaceholder /\ [][C2_FindStep]_vars

\* findindirect on an identity that is still a placeholder, after another
\* identity has been resolved: the placeholder is handed out again.
C2_Witness ==
    /\ call.op = "findindirect"
    /\ call.was = "indirect"
    /\ call.ret = indirect_objects[call.key]
    /\ Resolved # {}

\* C3, as claimed: after a load attempt on a deferred identity that ended
\* without an exception, the identity is no longer in the deferred set,
\* whether it was resolved or found unresolvable.
C3_AttemptLeavesDeferred ==
    (call.op = "loadindirect" /\ call.was = "indirect" /\ ~call.raised)
        => call.key \notin deferred_objects

C3_DeferredStep ==
    \A k \in Keys :
        /\ (k \in deferred_objects /\ k \notin deferred_objects')
               => (k \in DOMAIN indirect_objects' /\ indirect_objects'[k].kind # "indirect")
        /\ (k \notin deferred_objects /\ k \in deferred_objects')
               => Lookup(indirect_objects, k) = NoneValue
        /\ (call'.op = "loadindirect" /\ call'.key = k /\ call'.was = "indirect"
               /\ call'.ret = NoneValue /\ ~call'.raised)
               => (k \in deferred_objects' /\ indirect_objects' = indirect_objects)

\* C3, amended: the deferred set is the set of identities whose table entry
\* is a placeholder; an identity leaves it only when a load stores what it
\* parsed for the identity, and enters it only when findindirect finds
\* nothing for it in the table (no entry, or None), so it is never re-added
\* while the table holds a value for it; a load attempt that finds it
\* unresolvable leaves it in the set with its placeholder.
C3_DeferredArePlaceholders ==
    [](deferred_objects = Placeholders) /\ [][C3_DeferredStep]_vars

\* A load attempt found an identity unresolvable and it is still deferred,
\* while another identity has been resolved and has left the set.
C3_Witness ==
    /\ call.op = "loadindirect"
    /\ call.was = "indirect"
    /\ call.ret = NoneValue
    /\ ~call.raised
    /\ call.key \in deferred_objects
    /\ Resolved # {}

C4_ResolveStep ==
    /\ \A k \in Resolved :
           indirect_objects'[k] = indirect_objects[k]
    /\ (call'.op = "loadindirect" /\ call'.again) =>
           /\ call'.ret = first_loaded[call'.key]
           /\ call'.log = <<>>
           /\ call'.seeks = <<>>

\* C4: the table entry of a resolved identity is never replaced by a
\* different instance, and a loadindirect after the first one that returned
\* the identity's object returns that very instance, without a seek and
\* without a diagnostic.
C4_ResolveIdempotent == [][C4_ResolveStep]_vars

\* C5, as claimed: loadindirect on an identity with no (or a zero) offset in
\* the merged map returns None after logging a warning, and does not raise.
C5_NoOffsetWarnsNone ==
    (call.op = "loadindirect" /\ SeekOffset(obj_offsets, call.key) = 0) =>
        /\ call.ret = NoneValue
        /\ call.log = <<Warning("Did not find PDF object")>>
        /\ ~call.raised

\* C5, amended: when the identity's table entry is an unresolved placeholder,
\* loadindirect on an identity with no (or a zero) offset returns None after
\* logging the warning, does not raise, does not seek, and leaves the table
\* and the deferred set as they were; when the table has nothing for the
\* identity (no entry, or None) it returns None without a warning; when the table holds a value
\* (an object stream's member has no offset in the map) it returns the value.
C5_NoOffsetPlaceholder ==
    (call.op = "loadindirect" /\ SeekOffset(obj_offsets, call.key) = 0) =>
        /\ ~call.raised
        /\ call.seeks = <<>>
        /\ call.was = "indirect" =>
              /\ call.ret = NoneValue
              /\ call.log = <<Warning("Did not find PDF object")>>
              /\ indirect_objects[call.key].kind = "indirect"
              /\ call.key \in deferred_objects
        /\ call.was = "None" =>
              /\ call.ret = NoneValue
              /\ call.log = <<>>
              /\ Lookup(indirect_objects, call.key) = NoneValue
        /\ call.was = "object" =>
              /\ call.ret = indirect_objects[call.key]
              /\ call.log = <<>>

\* loadindirect on a registered placeholder that the offset map does not
\* list, after another object has been loaded from the file.
C5_Witness ==
    /\ call.op = "loadindirect"
    /\ call.was = "indirect"
    /\ SeekOffset(obj_offsets, call.key) = 0
    /\ call.ret = NoneValue
    /\ Resolved # {}

\* An identity with a valid offset and a matching header.
Loadable(key) ==
    /\ SeekOffset(obj_offsets, key) # 0
    /\ objects[SeekOffset(obj_offsets, key)].hdr = key

C6_Drained ==
    /\ \A k \in Keys : attempts[k] <= 1
    /\ (call.op = "read_all" /\ tpc = "idle" /\ ~call.raised) =>
           \A k \in Placeholders : attempts[k] = 1 /\ ~Loadable(k)

\* C6: read_all terminates; it attempts loadindirect on each identity at
\* most once; when it returns, every identity left as a placeholder has had
\* its load attempt, and none of them has a valid offset with a matching
\* header.
C6_ReadAllFixedPoint ==
    []C6_Drained /\ ((tpc = "read_all") ~> (tpc = "idle"))

\* read_all returned after two load attempts, one of which left an
\* unresolvable identity behind.
C6_Witness ==
    /\ call.op = "read_all"
    /\ tpc = "idle"
    /\ ~call.raised
    /\ \A k \in Keys : attempts[k] = 1
    /\ Placeholders # {}
    /\ Resolved # {}

(***************************************************************************)
(* PdfReader.__init__ on files whose Prev pointers are arbitrary: a        *)
(* trailer's Prev can name any section of the file, the section itself     *)
(* included, or an offset where no section starts.                         *)
(***************************************************************************)

\* The offset at which no xref section starts.
NoSection == 0

\* The tables of these files' sections.
ChainTables ==
    { <<>>, <<[objnum |-> 1, generation |-> 0, offset |-> 1, inuse |-> "n"]>> }

\* The files of n sections: the section at position i has a table and a
\* trailer with a Root and possibly a Prev.
ChainFiles(n) ==
    { [i \in 1..n |->
          [table |-> tables[i],
           offsets |-> RecordedOffsets(tables[i]),
           trailer |-> IF i \notin DOMAIN prevs THEN [k \in {"Root"} |-> <<k, i>>]
                       ELSE [k \in {"Root", "Prev"} |->
                                IF k = "Prev" THEN prevs[i] ELSE <<k, i>>]]] :
        tables \in [1..n -> ChainTables],
        prevs \in UNION { [linked -> {NoSection} \cup 1..n] :
                            linked \in SUBSET (1..n) } }

\* findxref: startxref names one of the file's sections.
InitChain ==
    /\ PagesIdle
    /\ StreamIdle
    /\ TableIdle
    /\ ipc = "xref"
    /\ \E n \in 1..MaxSections :
          /\ sections \in ChainFiles(n)
          /\ floc \in 1..n
    /\ obj_offsets = EmptyDict
    /\ xref_list = <<>>
    /\ trailer = EmptyDict
    /\ original_trailer = EmptyDict
    /\ header = 15
    /\ version = header
    /\ doc = EmptyDict

\* parsexref at an offset where no section starts: source.exception.
ChainFail ==
    /\ ipc = "xref"
    /\ floc \notin 1..Len(sections)
    /\ ipc' = "failed"
    /\ obj_offsets' = EmptyDict
    /\ UNCHANGED <<floc, xref_list, trailer, original_trailer, version, doc,
                   header, sections>>
    /\ UNCHANGED <<pageVars, streamVars, tableVars>>

\* One pass of the while loop over a section whose trailer has a Prev.  A
\* walk that has made more passes than the file has sections has parsed a
\* section twice and, a pass being determined by floc and the file, repeats
\* from there on; it is followed no further.
ChainFollow ==
    /\ ipc = "xref"
    /\ floc \in 1..Len(sections)
    /\ "Prev" \in DOMAIN sections[floc].trailer
    /\ Len(xref_list) <= Len(sections)
    /\ LET read == sections[floc].trailer
           first == xref_list = <<>>
           kept == IF first THEN DelKey(read, "Prev") ELSE read
       IN /\ obj_offsets' = parse_xref_table(sections[floc].table, EmptyDict)
          /\ trailer' = kept
          /\ original_trailer' = IF first THEN kept ELSE original_trailer
          /\ floc' = read["Prev"]
          /\ xref_list' = Append(xref_list, obj_offsets')
    /\ ipc' = "xref"
    /\ UNCHANGED <<version, doc, header, sections>>
    /\ UNCHANGED <<pageVars, streamVars, tableVars>>

\* The pass over a section whose trailer has no Prev, and the rest of
\* __init__.
ChainEnd ==
    /\ ipc = "xref"
    /\ floc \in 1..Len(sections)
    /\ "Prev" \notin DOMAIN sections[floc].trailer
    /\ LET tr == sections[floc].trailer
           parsed == parse_xref_table(sections[floc].table, EmptyDict)
           merged == MergeTrailer(tr, original_trailer, xref_list)
       IN /\ obj_offsets' = MergeOffsets(parsed, xref_list)
          /\ trailer' = DocumentKeys(merged)
          /\ version' = NewVersion(version, merged)
          /\ doc' = DocumentKeys(merged)
    /\ ipc' = "done"
    /\ UNCHANGED <<floc, xref_list, original_trailer, header, sections>>
    /\ UNCHANGED <<pageVars, streamVars, tableVars>>

NextChain ==
    \/ ChainFail
    \/ ChainFollow
    \/ ChainEnd

SpecChain == InitChain /\ [][NextChain]_vars

\* C11: the section-following loop ends after finitely many sections: it
\* never makes more passes than the file has sections (one more pass means a
\* section is parsed a second time, and the walk then never ends).
C11_LoopEnds == Len(xref_list) <= Len(sections)

\* The object a loadindirect call read, if it read one.
ObjectRead ==
    IF call.seeks = <<>> THEN NoneValue
    ELSE [kind |-> "object", id |-> <<>>, at |-> call.seeks[Len(call.seeks)]]

\* C12: a loadindirect that reads an empty object ('N G obj endobj') at the
\* identity's header returns without raising, the identity is no longer
\* deferred and the table holds a value for it.
C12_EmptyObjectLoads ==
    (/\ call.op = "loadindirect"
     /\ call.was = "indirect"
     /\ ObjectRead # NoneValue
     /\ objects[ObjectRead.at].hdr = call.key
     /\ objects[ObjectRead.at].value = "empty")
        => /\ ~call.raised
           /\ call.key \notin deferred_objects
           /\ Lookup(indirect_objects, call.key) # NoneValue

(***************************************************************************)
(* PdfReader.__init__ over a chain of compressed xref sections: each pass  *)
(* of the while loop is parse_xref_stream (the entries, then               *)
(* load_stream_objects on the object streams they name) and the loop's     *)
(* tail.                                                                   *)
(***************************************************************************)

\* The trailer (the xref stream's dictionary) of the section at chain
\* position i: a Root of its own, and a Prev unless prev_floc is 0.
PlainTrailersOfSection(i, prev_floc) ==
    IF prev_floc = 0 THEN [k \in {"Root"} |-> <<k, i>>]
    ELSE [k \in {"Root", "Prev"} |-> IF k = "Prev" THEN prev_floc ELSE <<k, i>>]

\* The longest chain of compressed xref sections a file holds.
MaxStreamSections == 2

\* The entries an xref stream holds for an object number: type 1 (an offset
\* and a generation) or type 2 (the number of the object stream that packs
\* the object, and its index in it).
StreamEntries ==
    [type : {1}, f2 : XrefOffsets, f3 : Gens] \cup [type : {2}, f2 : ObjNums, f3 : {0}]

\* An xref stream: entries for some of the object numbers.
XrefStreams == UNION { [nums -> StreamEntries] : nums \in SUBSET ObjNums }

\* parse_xref_stream, lines 354-385, over the entries in the order of their
\* object numbers: the offsets it records with setdefault.
RECURSIVE StreamOffsets(_, _, _)
StreamOffsets(entries, nums, offsets) ==
    IF nums = <<>> THEN offsets
    ELSE LET num == Head(nums)
             e == entries[num]
         IN StreamOffsets(entries, Tail(nums),
                IF e.type = 1 /\ e.f2 # 0
                THEN SetDefault(offsets, <<num, e.f3>>, e.f2)
                ELSE offsets)

\* The keys of object_streams: the object streams the type-2 entries name.
ObjectStreamNums(entries) ==
    { entries[num].f2 : num \in { n \in DOMAIN entries : entries[n].type = 2 } }

\* The identities a section lists as packed in an object stream.
Packed(entries) ==
    { <<num, 0>> : num \in { n \in DOMAIN entries : entries[n].type = 2 } }

\* The objects of these files: plain dictionaries, and object streams that
\* pack an object other than themselves.
PackFileObjects ==
    { o \in Dictionaries : o.refs = {} /\ o.tail = "endobj" }
    \cup { o \in ObjectStreams : \A member \in o.members : member.num # o.hdr[1] }

InitObjStm ==
    /\ PagesIdle
    /\ StreamIdle
    /\ ipc = "xref"
    /\ floc = 1
    /\ obj_offsets = EmptyDict
    /\ xref_list = <<>>
    /\ trailer = EmptyDict
    /\ original_trailer = EmptyDict
    /\ header = 15
    /\ version = header
    /\ doc = EmptyDict
    /\ sections = <<>>
    /\ tpc = "idle"
    /\ objects \in [Slots -> PackFileObjects]
    /\ indirect_objects = EmptyDict
    /\ deferred_objects = {}
    /\ made = [k \in Keys |-> 0]
    /\ call = [op |-> "init"]
    /\ first_loaded = EmptyDict
    /\ prev = {}
    /\ todo = {}
    /\ attempts = [k \in Keys |-> 0]

\* parse_xref_stream up to its call of load_stream_objects: the entries of
\* the section at floc are read into source.obj_offsets and object_streams
\* (whose iterkeys() gives the object streams in the order of the sequence).
\* real_value() is PdfIndirect's: the object streams are not yet loaded.
ReadXrefStream(entries, order, hasPrev) ==
    /\ ipc = "xref"
    /\ hasPrev => Len(xref_list) < MaxStreamSections - 1
    /\ { order[i] : i \in 1..Len(order) } = ObjectStreamNums(entries)
    /\ \A c \in ObjectStreamNums(entries) : KindOf(<<c, 0>>) # "object"
    /\ \A k \in Keys : made[k] < MaxInstances
    /\ obj_offsets' = StreamOffsets(entries, Ascending(DOMAIN entries), EmptyDict)
    /\ sections' = Append(sections,
           [entries |-> entries,
            offsets |-> obj_offsets',
            order |-> order,
            trailer |-> IF hasPrev
                        THEN PlainTrailersOfSection(Len(sections) + 1, floc + 1)
                        ELSE PlainTrailersOfSection(Len(sections) + 1, 0)])
    /\ ipc' = "streams"
    /\ UNCHANGED <<floc, xref_list, trailer, original_trailer, version, doc, header>>
    /\ UNCHANGED <<pageVars, streamVars, tableVars>>

\* The rest of the pass: load_stream_objects (an exception of which ends
\* __init__), then the tail of the while loop: the Prev is followed, or the
\* loop ends, the offset maps and trailers are merged and __init__ returns.
LoadSectionStreams ==
    /\ ipc = "streams"
    /\ LET section == sections[Len(sections)]
           r == load_stream_objects(TableState, section.order)
           read == section.trailer
           first == xref_list = <<>>
           kept == IF first THEN DelKey(read, "Prev") ELSE read
           merged == MergeTrailer(read, original_trailer, xref_list)
       IN /\ SetTable(r.st)
          /\ call' = Called("load_stream_objects", <<>>, "None", r)
          /\ IF r.raised
             THEN /\ ipc' = "failed"
                  /\ UNCHANGED <<floc, obj_offsets, xref_list, trailer,
                                 original_trailer, version, doc>>
             ELSE IF "Prev" \in DOMAIN read
             THEN /\ ipc' = "xref"
                  /\ trailer' = kept
                  /\ original_trailer' = IF first THEN kept ELSE original_trailer
                  /\ floc' = read["Prev"]
                  /\ xref_list' = Append(xref_list, obj_offsets)
                  /\ UNCHANGED <<obj_offsets, version, doc>>
             ELSE /\ ipc' = "done"
                  /\ obj_offsets' = MergeOffsets(obj_offsets, xref_list)
                  /\ trailer' = DocumentKeys(merged)
                  /\ version' = NewVersion(version, merged)
                  /\ doc' = DocumentKeys(merged)
                  /\ UNCHANGED <<floc, xref_list, original_trailer>>
    /\ UNCHANGED <<header, sections>>
    /\ UNCHANGED <<tpc, objects, first_loaded, prev, todo, attempts>>
    /\ UNCHANGED <<pageVars, streamVars>>

\* A reference of the loaded document is resolved.
ResolveLoaded(key) ==
    /\ ipc = "done"
    /\ LoadIndirect(key)

NextObjStm ==
    \/ \E entries \in XrefStreams, order \in Orders \cup {<<>>}, hasPrev \in BOOLEAN :
          ReadXrefStream(entries, order, hasPrev)
    \/ LoadSectionStreams
    \/ \E key \in Keys : ResolveLoaded(key)

SpecObjStm == InitObjStm /\ [][NextObjStm]_vars

\* The newest of the sections that define key, by an offset or as packed
\* (0: none does).
Defines(i, key) ==
    key \in DOMAIN sections[i].offsets \cup Packed(sections[i].entries)

NewestDefining(key) ==
    LET defining == { i \in 1..Len(sections) : Defines(i, key) }
    IN IF defining = {} THEN 0 ELSE Newest(defining)

C13_NewestStep ==
    /\ ipc # "done" =>
           \A k \in Resolved : indirect_objects'[k] = indirect_objects[k]
    /\ (/\ ipc = "done"
        /\ call'.op = "loadindirect"
        /\ ~call'.raised
        /\ call'.ret # NoneValue
        /\ NewestDefining(call'.key) # 0
        /\ \E older \in NewestDefining(call'.key) + 1 .. Len(sections) :
               call'.key \in Packed(sections[older].entries)
        /\ call'.key \in DOMAIN sections[NewestDefining(call'.key)].offsets
        /\ objects[sections[NewestDefining(call'.key)].offsets[call'.key]].hdr
               = call'.key)
           => call'.ret.at = sections[NewestDefining(call'.key)].offsets[call'.key]

\* C13: while __init__ walks the chain, a table entry written while parsing
\* a newer section is never replaced when an older section is parsed; and an
\* identity whose newest defining section gives it the offset of its object,
\* and which an older section lists as packed in an object stream, resolves
\* after __init__ to the object at that offset.
C13_NewestPackedWins == [][C13_NewestStep]_vars

====
